---- MODULE Spec2Model ----
(***************************************************************************)
(* A model of the generic Slice[T] container of sliceutils: the ordering   *)
(* of Sequences (ord.go), the structural algorithms (modify.go) and the    *)
(* container primitives they call (sliceutils.go, eq.go).                  *)
(*                                                                         *)
(* An Element is a tagged value: [kind |-> "Int", val |-> n] is the Go     *)
(* value Int(n), [kind |-> "Slice", val |-> s] is a nested Slice whose     *)
(* Elements are the members of the TLA+ sequence s.  A Slice is the TLA+   *)
(* sequence of its Elements; Go index i is TLA+ index i + 1.               *)
(***************************************************************************)
EXTENDS Integers, Sequences, FiniteSets, TLC

VARIABLES sl, pre, other, op, arg, sep, ret, ord, err, vals, ok, cmp,
          deque, added, removed, mem, slRef, retRef, wrote, calls

vars == <<sl, pre, other, op, arg, sep, ret, ord, err, vals, ok, cmp,
          deque, added, removed, mem, slRef, retRef, wrote, calls>>

(***************************************************************************)
(* Bounds of the model.                                                    *)
(***************************************************************************)
MaxLen == 3
MaxArg == 4
MaxLeaves == 3
MaxGroups == 2
MaxDepth == 2
StackLimit == 3
UintBits == 16

(***************************************************************************)
(* Elements.                                                               *)
(***************************************************************************)
I(n) == [kind |-> "Int", val |-> n]

S(s) == [kind |-> "Slice", val |-> s]

C(re, im) == [kind |-> "C128", val |-> <<re, im>>]

Less == -1

Equal == 0

Greater == 1

UintMod == 2 ^ UintBits

(***************************************************************************)
(* eq.go: Eq on Int, on C128 and on Slice.                                 *)
(***************************************************************************)
RECURSIVE ElemEq(_, _)
ElemEq(a, b) ==
    IF a.kind = "Int"
    THEN b.kind = "Int" /\ a.val = b.val
    ELSE IF a.kind = "C128"
    THEN b.kind = "C128" /\ a.val = b.val
    ELSE /\ b.kind = "Slice"
         /\ Len(a.val) = Len(b.val)
         /\ \A i \in 1..Len(a.val) : ElemEq(a.val[i], b.val[i])

(***************************************************************************)
(* ord.go: Gt and Lt on Int, and on C128, where both the real and the      *)
(* imaginary part have to be greater (less).                               *)
(***************************************************************************)
ElemGt(a, b) ==
    \/ a.kind = "Int" /\ b.kind = "Int" /\ a.val > b.val
    \/ /\ a.kind = "C128" /\ b.kind = "C128"
       /\ a.val[1] > b.val[1] /\ a.val[2] > b.val[2]

ElemLt(a, b) ==
    \/ a.kind = "Int" /\ b.kind = "Int" /\ a.val < b.val
    \/ /\ a.kind = "C128" /\ b.kind = "C128"
       /\ a.val[1] < b.val[1] /\ a.val[2] < b.val[2]

(***************************************************************************)
(* sliceutils.go: primitives.                                              *)
(***************************************************************************)
IsEmpty(s) == Len(s) = 0

Contains(s, v) == \E i \in 1..Len(s) : ElemEq(s[i], v)

IsPrefixOf_ge(s, t) ==
    IF Len(s) > Len(t) THEN FALSE
    ELSE \A i \in 1..Len(s) : ElemEq(s[i], t[i])

IsPrefixOf(s, t) ==
    IF Len(s) >= Len(t) THEN FALSE
    ELSE \A i \in 1..Len(s) : ElemEq(s[i], t[i])

IsNested(s) == IF IsEmpty(s) THEN FALSE ELSE s[1].kind = "Slice"

(***************************************************************************)
(* ord.go: Compare.  The scan reads other[i] for every i below sl.Len();   *)
(* an index past the end of other is a run-time panic.                     *)
(***************************************************************************)
Returns(o) == [ord |-> o, err |-> "nil"]

IndexPanic == [ord |-> Equal, err |-> "panic"]

RECURSIVE CompareLoop(_, _, _)
CompareLoop(s, t, i) ==
    IF i > Len(s) THEN Returns(Equal)
    ELSE IF i > Len(t) THEN IndexPanic
    ELSE IF ElemGt(s[i], t[i]) THEN Returns(Greater)
    ELSE IF ElemLt(s[i], t[i]) THEN Returns(Less)
    ELSE CompareLoop(s, t, i + 1)

Compare_noGreaterPrefix(s, t) ==
    IF IsEmpty(s) /\ IsEmpty(t) THEN Returns(Equal)
    ELSE IF IsPrefixOf(s, t) THEN Returns(Less)
    ELSE CompareLoop(s, t, 1)

Compare(s, t) ==
    IF IsEmpty(s) /\ IsEmpty(t) THEN Returns(Equal)
    ELSE IF IsPrefixOf(s, t) THEN Returns(Less)
    ELSE IF IsPrefixOf(t, s) THEN Returns(Greater)
    ELSE CompareLoop(s, t, 1)

(***************************************************************************)
(* ord.go: Gt, Lt, Ge and Le on Slice.  The operand is any value: the type *)
(* switch takes the Compare branch for a Slice of the same kind and the    *)
(* default branch for everything else.                                     *)
(***************************************************************************)
Answers(b, e) == [ok |-> b, err |-> e]

SliceGt(s, o) ==
    IF o.kind = "Slice"
    THEN Answers(Compare(s, o.val).ord = Greater, Compare(s, o.val).err)
    ELSE Answers(FALSE, "nil")

SliceLt(s, o) ==
    IF o.kind = "Slice"
    THEN Answers(Compare(s, o.val).ord = Less, Compare(s, o.val).err)
    ELSE Answers(FALSE, "nil")

SliceGe(s, o) ==
    IF o.kind = "Slice"
    THEN Answers(Compare(s, o.val).ord # Less, Compare(s, o.val).err)
    ELSE Answers(FALSE, "nil")

SliceLe(s, o) ==
    IF o.kind = "Slice"
    THEN Answers(Compare(s, o.val).ord # Greater, Compare(s, o.val).err)
    ELSE Answers(FALSE, "nil")

(***************************************************************************)
(* modify.go: Flatten, FlattenN, FlattenAll.  reflect.Value.Len panics on  *)
(* an Element that is not itself a slice.  FlattenN recurses on n - 1 in   *)
(* unsigned arithmetic; a recursion that never returns ends the program    *)
(* when the goroutine stack is exhausted.                                  *)
(***************************************************************************)
RECURSIVE FlattenLoop(_, _, _)
FlattenLoop(s, i, result) ==
    IF i > Len(s) THEN result
    ELSE FlattenLoop(s, i + 1, result \o s[i].val)

FlattenPanics(s) == IsNested(s) /\ \E i \in 1..Len(s) : s[i].kind # "Slice"

Flatten_skipFirst(s) == IF IsNested(s) THEN FlattenLoop(s, 2, <<>>) ELSE s

Flatten(s) == IF IsNested(s) THEN FlattenLoop(s, 1, <<>>) ELSE s

RECURSIVE FlattenN(_, _, _)
FlattenN(s, n, fuel) ==
    IF IsNested(s) /\ n > 0 THEN [ret |-> s, err |-> "nil"]
    ELSE IF FlattenPanics(s) THEN [ret |-> <<>>, err |-> "panic"]
    ELSE IF fuel = 0 THEN [ret |-> <<>>, err |-> "stack overflow"]
    ELSE FlattenN(Flatten(s), (n - 1) % UintMod, fuel - 1)

FlattenAll_once(s) == IF IsNested(s) THEN Flatten(s) ELSE s

RECURSIVE FlattenAll(_)
FlattenAll(s) == IF IsNested(s) THEN FlattenAll(Flatten(s)) ELSE s

(***************************************************************************)
(* sliceutils.go: Join.                                                    *)
(***************************************************************************)
Join(s, s2, seps) == (s \o seps) \o s2

(***************************************************************************)
(* modify.go: Split, SplitN, SplitOnce.  buf.Clear() gives buf a new empty *)
(* Slice, so a partition already pushed keeps its Elements.                *)
(***************************************************************************)
RECURSIVE SplitLoop(_, _, _, _, _)
SplitLoop(s, sp, i, acc, buf) ==
    IF i > Len(s) THEN Append(acc, S(buf))
    ELSE IF ElemEq(s[i], sp) THEN SplitLoop(s, sp, i + 1, Append(acc, S(buf)), <<>>)
    ELSE SplitLoop(s, sp, i + 1, acc, Append(buf, s[i]))

RECURSIVE SplitLoop_noFinal(_, _, _, _, _)
SplitLoop_noFinal(s, sp, i, acc, buf) ==
    IF i > Len(s) THEN acc
    ELSE IF ElemEq(s[i], sp) THEN SplitLoop_noFinal(s, sp, i + 1, Append(acc, S(buf)), <<>>)
    ELSE SplitLoop_noFinal(s, sp, i + 1, acc, Append(buf, s[i]))

Split_noFinal(s, sp) ==
    IF ~Contains(s, sp) THEN s ELSE SplitLoop_noFinal(s, sp, 1, <<>>, <<>>)

Split_wrapSole(s, sp) == SplitLoop(s, sp, 1, <<>>, <<>>)

Split(s, sp) ==
    IF ~Contains(s, sp) THEN s ELSE SplitLoop(s, sp, 1, <<>>, <<>>)

RECURSIVE SplitNLoop(_, _, _, _, _, _)
SplitNLoop(s, n, sp, i, acc, buf) ==
    IF i > Len(s) THEN Append(acc, S(buf))
    ELSE IF ElemEq(s[i], sp)
         THEN IF n - 1 <= 1
              THEN Append(Append(acc, S(buf)), S(SubSeq(s, i, Len(s))))
              ELSE SplitNLoop(s, n - 1, sp, i + 1, Append(acc, S(buf)), <<>>)
         ELSE SplitNLoop(s, n, sp, i + 1, acc, Append(buf, s[i]))

SplitN(s, n, sp) ==
    IF n <= 1 \/ ~Contains(s, sp) THEN Split(s, sp)
    ELSE SplitNLoop(s, n, sp, 1, <<>>, <<>>)

SplitOnce(s, sp) == SplitN(s, 2, sp)

(***************************************************************************)
(* modify.go: Chunk and Windows, for size >= 1.  Both panic on size 0; the *)
(* actions DoChunk and DoWindows take that branch.                         *)
(***************************************************************************)
RECURSIVE ChunkLoop(_, _, _, _, _)
ChunkLoop(s, size, i, chunks, chunk) ==
    IF i > Len(s) THEN chunks
    ELSE IF i % size = 0 \/ i = Len(s)
         THEN ChunkLoop(s, size, i + 1, Append(chunks, S(Append(chunk, s[i]))), <<>>)
         ELSE ChunkLoop(s, size, i + 1, chunks, Append(chunk, s[i]))

Chunk_noFlatten(s, size) ==
    IF IsEmpty(s) THEN <<>> ELSE ChunkLoop(s, size, 1, <<>>, <<>>)

Chunk(s, size) ==
    IF IsEmpty(s) THEN <<>>
    ELSE IF Len(ChunkLoop(s, size, 1, <<>>, <<>>)) = 1
         THEN Flatten(ChunkLoop(s, size, 1, <<>>, <<>>))
         ELSE ChunkLoop(s, size, 1, <<>>, <<>>)

Windows_shortLoop(s, size) ==
    IF Len(s) < size THEN s
    ELSE [i \in 1..(Len(s) - size) |-> S(SubSeq(s, i, i + size - 1))]

Windows(s, size) ==
    IF Len(s) < size THEN s
    ELSE [i \in 1..(Len(s) - size + 1) |-> S(SubSeq(s, i, i + size - 1))]

(***************************************************************************)
(* sliceutils.go: Default and Get.  A negative index is resolved by adding *)
(* the length until the index is not negative, then adding one; on an      *)
(* empty Slice that loop never ends.  Indexing at or past the length is a  *)
(* run-time panic.                                                         *)
(***************************************************************************)
Default == I(0)

RECURSIVE ResolveLoop(_, _)
ResolveLoop(n, length) == IF n < 0 THEN ResolveLoop(n + length, length) ELSE n

Resolve_noIncrement(n, length) == IF n < 0 THEN ResolveLoop(n, length) ELSE n

Resolve(n, length) == IF n < 0 THEN ResolveLoop(n, length) + 1 ELSE n

Diverges(n, length) == n < 0 /\ length = 0

Get(s, n) ==
    IF IsEmpty(s) THEN [val |-> Default, err |-> "ErrIsEmpty"]
    ELSE IF Len(s) < n THEN [val |-> Default, err |-> "ErrOutOfRange"]
    ELSE IF Resolve(n, Len(s)) >= Len(s) THEN [val |-> Default, err |-> "panic"]
    ELSE [val |-> s[Resolve(n, Len(s)) + 1], err |-> "nil"]

(***************************************************************************)
(* sliceutils.go: Remove (n is a uint), Insert and IndexIs; modify.go:     *)
(* Set.  Each result is the receiver's contents after the call, the value  *)
(* returned and the outcome: an error value, "panic" for an index out of   *)
(* range at run time, "diverges" for a resolution loop that never ends.    *)
(***************************************************************************)
Outcome(s, v, e) == [s |-> s, val |-> v, err |-> e]

Remove(s, n) ==
    IF IsEmpty(s) THEN Outcome(s, Default, "ErrIsEmpty")
    ELSE IF Len(s) < n THEN Outcome(s, Default, "ErrOutOfRange")
    ELSE IF n >= Len(s) THEN Outcome(s, Default, "panic")
    ELSE IF n = Len(s) - 1 THEN Outcome(SubSeq(s, 1, n), s[n + 1], "nil")
    ELSE Outcome(SubSeq(s, 1, n) \o SubSeq(s, n + 2, Len(s)), s[n + 1], "nil")

RECURSIVE InsertLoop(_, _, _, _, _)
InsertLoop_after(copy, n, v, i, result) ==
    IF i >= Len(copy) THEN result
    ELSE IF i = n
         THEN InsertLoop(copy, n, v, i + 1, (result \o <<copy[i + 1]>>) \o v)
         ELSE InsertLoop(copy, n, v, i + 1, Append(result, copy[i + 1]))

InsertLoop(copy, n, v, i, result) ==
    IF i >= Len(copy) THEN result
    ELSE IF i = n
         THEN InsertLoop(copy, n, v, i + 1, Append(result \o v, copy[i + 1]))
         ELSE InsertLoop(copy, n, v, i + 1, Append(result, copy[i + 1]))

Insert(s, n, v) ==
    IF Len(s) < n THEN Outcome(s, Default, "ErrOutOfRange")
    ELSE IF Diverges(n, Len(s)) THEN Outcome(s, Default, "diverges")
    ELSE IF Resolve(n, Len(s)) = Len(s) THEN Outcome(s \o v, Default, "nil")
    ELSE Outcome(InsertLoop(s, Resolve(n, Len(s)), v, 0, <<>>), Default, "nil")

IndexIs(s, n, value) ==
    IF Diverges(n, Len(s)) THEN [ok |-> FALSE, err |-> "diverges"]
    ELSE IF Resolve(n, Len(s)) >= Len(s) THEN [ok |-> FALSE, err |-> "panic"]
    ELSE [ok |-> ElemEq(s[Resolve(n, Len(s)) + 1], value), err |-> "nil"]

Set(s, n, value) ==
    IF Len(s) < n THEN Outcome(s, Default, "nil")
    ELSE IF Diverges(n, Len(s)) THEN Outcome(s, Default, "diverges")
    ELSE IF Resolve(n, Len(s)) >= Len(s) THEN Outcome(s, Default, "panic")
    ELSE Outcome([s EXCEPT ![Resolve(n, Len(s)) + 1] = value], Default, "nil")

(***************************************************************************)
(* modify.go: Sort (quicksort, Lomuto partition on Lt), SortBy (top-down   *)
(* merge sort on the caller's function f) and IsSorted.  low, high, left,  *)
(* mid and right are the Go indexes plus one.                              *)
(***************************************************************************)
Swap2(s, a, b) == [s EXCEPT ![a] = s[b], ![b] = s[a]]

RECURSIVE PartitionLoop(_, _, _, _, _)
PartitionLoop(s, pivot, high, i, j) ==
    IF j >= high THEN [s |-> Swap2(s, i + 1, high), pivot |-> i + 1]
    ELSE IF ElemLt(s[j], pivot)
         THEN PartitionLoop(Swap2(s, i + 1, j), pivot, high, i + 1, j + 1)
         ELSE PartitionLoop(s, pivot, high, i, j + 1)

partition_lowPivot(s, low, high) == PartitionLoop(s, s[low], high, low - 1, low)

partition(s, low, high) == PartitionLoop(s, s[high], high, low - 1, low)

RECURSIVE quickSort(_, _, _)
quickSort(s, low, high) ==
    IF low < high
    THEN quickSort(quickSort(partition(s, low, high).s, low,
                             partition(s, low, high).pivot - 1),
                   partition(s, low, high).pivot + 1, high)
    ELSE s

Sort(s) == quickSort(s, 1, Len(s))

Key(a) == a.val \div 2

Call(f, a, b) == IF f = "lt" THEN Key(a) < Key(b) ELSE Key(a) <= Key(b)

RECURSIVE MergeLoop(_, _, _, _, _, _, _)
MergeLoop(s, f, i, j, mid, right, temp) ==
    IF i <= mid /\ j <= right
    THEN IF Call(f, s[i], s[j])
         THEN MergeLoop(s, f, i + 1, j, mid, right, Append(temp, s[i]))
         ELSE MergeLoop(s, f, i, j + 1, mid, right, Append(temp, s[j]))
    ELSE IF i <= mid THEN MergeLoop(s, f, i + 1, j, mid, right, Append(temp, s[i]))
    ELSE IF j <= right THEN MergeLoop(s, f, i, j + 1, mid, right, Append(temp, s[j]))
    ELSE temp

merge(s, f, left, mid, right) ==
    [k \in 1..Len(s) |->
        IF left <= k /\ k <= right
        THEN MergeLoop(s, f, left, mid + 1, mid, right, <<>>)[k - left + 1]
        ELSE s[k]]

RECURSIVE mergeSort(_, _, _, _)
mergeSort(s, f, left, right) ==
    IF left < right
    THEN merge(mergeSort(mergeSort(s, f, left, (left + right) \div 2),
                         f, ((left + right) \div 2) + 1, right),
               f, left, (left + right) \div 2, right)
    ELSE s

SortBy(s, f) == IF Len(s) <= 1 THEN s ELSE mergeSort(s, f, 1, Len(s))

IsSorted(s) ==
    ~\E i \in 0..(Len(s) - 2) : ElemLt(Get(s, i).val, Get(s, i + 1).val)

(***************************************************************************)
(* modify.go: RotateLeft, RotateRight (n is a uint, reduced modulo the     *)
(* length) and Dedup (a list of the values seen so far).                   *)
(***************************************************************************)
RotateLeft(s, n) ==
    IF Len(s) = 0 \/ n = 0 THEN s
    ELSE SubSeq(s, (n % Len(s)) + 1, Len(s)) \o SubSeq(s, 1, n % Len(s))

RotateRight_asLeft(s, n) ==
    IF Len(s) = 0 \/ n = 0 THEN s
    ELSE SubSeq(s, (n % Len(s)) + 1, Len(s)) \o SubSeq(s, 1, n % Len(s))

RotateRight(s, n) ==
    IF Len(s) = 0 \/ n = 0 THEN s
    ELSE SubSeq(s, Len(s) - (n % Len(s)) + 1, Len(s))
             \o SubSeq(s, 1, Len(s) - (n % Len(s)))

RECURSIVE DedupLoop(_, _, _)
DedupLoop_adjacent(s, i, seen) ==
    IF i > Len(s) THEN seen
    ELSE IF seen # <<>> /\ ElemEq(seen[Len(seen)], s[i])
         THEN DedupLoop(s, i + 1, seen)
         ELSE DedupLoop(s, i + 1, Append(seen, s[i]))

DedupLoop(s, i, seen) ==
    IF i > Len(s) THEN seen
    ELSE IF ~Contains(seen, s[i])
         THEN DedupLoop(s, i + 1, Append(seen, s[i]))
         ELSE DedupLoop(s, i + 1, seen)

Dedup(s) == DedupLoop(s, 1, <<>>)

(***************************************************************************)
(* sliceutils.go: Pop, PopFront, Push and PushFront, on a receiver that is *)
(* not a nil pointer.                                                      *)
(***************************************************************************)
Pop(s) ==
    IF IsEmpty(s) THEN Outcome(s, Default, "ErrIsEmpty")
    ELSE Outcome(SubSeq(s, 1, Len(s) - 1), s[Len(s)], "nil")

PopFront(s) ==
    IF IsEmpty(s) THEN Outcome(s, Default, "ErrIsEmpty")
    ELSE IF Len(s) = 1 THEN Outcome(<<>>, s[1], "nil")
    ELSE Outcome(SubSeq(s, 2, Len(s)), s[1], "nil")

Push(s, v) == Outcome(s \o v, Default, "nil")

PushFront_asPush(s, v) == Outcome(s \o v, Default, "nil")

PushFront(s, v) == Outcome(v \o s, Default, "nil")

(***************************************************************************)
(* sliceutils.go: Copy, Map, Filter, GetRange, Reverse; modify.go: Purge,  *)
(* Fill, Replace, ReverseMut.  The caller's function of Map is named by f  *)
(* ("inc" adds one, "zero" returns 0), the predicate of Filter by p        *)
(* ("odd", "any").                                                         *)
(***************************************************************************)
Apply(f, a) == IF f = "inc" THEN I(a.val + 1) ELSE I(0)

Holds(p, a) == IF p = "odd" THEN a.val % 2 = 1 ELSE TRUE

Copy(s) == s

Map(s, f) == [i \in 1..Len(s) |-> Apply(f, s[i])]

Filter(s, p) == SelectSeq(s, LAMBDA a : Holds(p, a))

Reverse(s) == [i \in 1..Len(s) |-> s[Len(s) - i + 1]]

GetRange(s, from, to) ==
    IF IsEmpty(s) THEN Outcome(<<>>, Default, "ErrIsEmpty")
    ELSE IF Len(s) < from \/ Len(s) < to
         THEN Outcome(<<>>, Default, "ErrOutOfRange")
    ELSE IF from < to /\ from < 0 THEN Outcome(<<>>, Default, "panic")
    ELSE Outcome(SubSeq(s, from + 1, to), Default, "nil")

(***************************************************************************)
(* Backing storage.  mem is the sequence of storage cells, a Slice header  *)
(* is the sequence of the cells it spans (sub-slicing keeps the cells, an  *)
(* append to a nil Slice takes new ones).  A result is described item by   *)
(* item: Cell(a) is an Element stored in cell a, Inner(as) is an Element   *)
(* that is itself a Slice header over the cells as.                        *)
(***************************************************************************)
Cell(a) == [kind |-> "Cell", at |-> <<a>>]

Inner(as) == [kind |-> "Slice", at |-> as]

View(m, refs) ==
    [k \in 1..Len(refs) |->
        IF refs[k].kind = "Cell" THEN m[refs[k].at[1]]
        ELSE S([j \in 1..Len(refs[k].at) |-> m[refs[k].at[j]]])]

Header(m, refs) == [mem |-> m, refs |-> refs]

RECURSIVE Alloc(_, _, _, _)
Alloc(r, k, m, refs) ==
    IF k > Len(r) THEN Header(m, refs)
    ELSE IF r[k].kind = "Slice"
         THEN Alloc(r, k + 1, m \o r[k].val,
                    Append(refs, Inner([j \in 1..Len(r[k].val) |-> Len(m) + j])))
         ELSE Alloc(r, k + 1, Append(m, r[k]), Append(refs, Cell(Len(m) + 1)))

Fresh(r, m) == Alloc(r, 1, m, <<>>)

Cells(as) == [k \in 1..Len(as) |-> Cell(as[k])]

CopyRefs(m, refs) == Header(m, Cells(refs))

WindowsRefs(s, refs, size, m) ==
    IF Len(s) < size THEN Fresh(s, m)
    ELSE Header(m, [i \in 1..(Len(s) - size + 1) |->
                       Inner(SubSeq(refs, i, i + size - 1))])

RECURSIVE SplitNRefsLoop(_, _, _, _, _, _, _, _)
SplitNRefsLoop(s, refs, n, sp, i, acc, buf, m) ==
    IF i > Len(s) THEN Fresh(Append(acc, S(buf)), m)
    ELSE IF ElemEq(s[i], sp)
         THEN IF n - 1 <= 1
              THEN Header(Fresh(Append(acc, S(buf)), m).mem,
                          Append(Fresh(Append(acc, S(buf)), m).refs,
                                 Inner(SubSeq(refs, i, Len(s)))))
              ELSE SplitNRefsLoop(s, refs, n - 1, sp, i + 1,
                                  Append(acc, S(buf)), <<>>, m)
         ELSE SplitNRefsLoop(s, refs, n, sp, i + 1, acc, Append(buf, s[i]), m)

SplitNRefs(s, refs, n, sp, m) ==
    IF n <= 1 \/ ~Contains(s, sp) THEN Fresh(Split(s, sp), m)
    ELSE SplitNRefsLoop(s, refs, n, sp, 1, <<>>, <<>>, m)

WriteBack(m, refs, contents) ==
    [a \in 1..Len(m) |->
        IF \E k \in 1..Len(refs) : refs[k] = a
        THEN contents[CHOOSE k \in 1..Len(refs) : refs[k] = a]
        ELSE m[a]]

(***************************************************************************)
(* sliceutils.go: ForEach, Map, MapWhile, Filter, CountBy; modify.go:      *)
(* SplitBy.  Each operator returns the value (val) and the log of the      *)
(* invocations of the caller's function (calls), one entry per invocation  *)
(* holding the Go index of the Element passed.  The function of MapWhile   *)
(* returns a pointer: "incOdd" returns nil on an even value and a pointer  *)
(* to v + 1 on an odd one, "never" always nil, "inc" never nil.            *)
(***************************************************************************)
IsNil(f, a) == f = "never" \/ (f = "incOdd" /\ a.val % 2 = 0)

Deref(f, a) == I(a.val + 1)

Logged(v, c) == [val |-> v, calls |-> c]

RECURSIVE ForEachLoop(_, _, _)
ForEachLoop(s, i, c) ==
    IF i > Len(s) THEN Logged(<<>>, c)
    ELSE ForEachLoop(s, i + 1, Append(c, i - 1))

ForEach(s) == ForEachLoop(s, 1, <<>>)

RECURSIVE MapLoop(_, _, _, _, _)
MapLoop(s, f, i, mappedSlice, c) ==
    IF i > Len(s) THEN Logged(mappedSlice, c)
    ELSE MapLoop(s, f, i + 1, Append(mappedSlice, Apply(f, s[i])), Append(c, i - 1))

MapLogged(s, f) == MapLoop(s, f, 1, <<>>, <<>>)

RECURSIVE MapWhileLoop(_, _, _, _, _)
MapWhileLoop(s, f, i, mappedSlice, c) ==
    IF i > Len(s) THEN Logged(mappedSlice, c)
    ELSE IF ~IsNil(f, s[i])
         THEN MapWhileLoop(s, f, i + 1, Append(mappedSlice, Deref(f, s[i])),
                           Append(Append(c, i - 1), i - 1))
         ELSE MapWhileLoop(s, f, i + 1, Append(mappedSlice, s[i]), Append(c, i - 1))

MapWhile(s, f) == MapWhileLoop(s, f, 1, <<>>, <<>>)

RECURSIVE FilterLoop(_, _, _, _, _)
FilterLoop(s, p, i, filteredSlice, c) ==
    IF i > Len(s) THEN Logged(filteredSlice, c)
    ELSE IF Holds(p, s[i])
         THEN FilterLoop(s, p, i + 1, Append(filteredSlice, s[i]), Append(c, i - 1))
         ELSE FilterLoop(s, p, i + 1, filteredSlice, Append(c, i - 1))

FilterLogged(s, p) == FilterLoop(s, p, 1, <<>>, <<>>)

RECURSIVE CountByLoop(_, _, _, _, _)
CountByLoop(s, p, i, count, c) ==
    IF i > Len(s) THEN Logged(count, c)
    ELSE IF Holds(p, s[i])
         THEN CountByLoop(s, p, i + 1, count + 1, Append(c, i - 1))
         ELSE CountByLoop(s, p, i + 1, count, Append(c, i - 1))

CountBy(s, p) == CountByLoop(s, p, 1, 0, <<>>)

RECURSIVE SplitByLoop(_, _, _, _, _, _)
SplitByLoop(s, p, i, sp, buf, c) ==
    IF i > Len(s) THEN Logged(Append(sp, S(buf)), c)
    ELSE IF Holds(p, s[i])
         THEN SplitByLoop(s, p, i + 1, Append(sp, S(buf)), <<>>, Append(c, i - 1))
         ELSE SplitByLoop(s, p, i + 1, sp, Append(buf, s[i]), Append(c, i - 1))

SplitBy(s, p) ==
    IF Len(SplitByLoop(s, p, 1, <<>>, <<>>, <<>>).val) = 1
    THEN Logged(Flatten(SplitByLoop(s, p, 1, <<>>, <<>>, <<>>).val),
                SplitByLoop(s, p, 1, <<>>, <<>>, <<>>).calls)
    ELSE SplitByLoop(s, p, 1, <<>>, <<>>, <<>>)

(***************************************************************************)
(* modify.go: Fill, FillWith, FillWithDefault and SwapValues, which write  *)
(* through the receiver.  The function of FillWith takes no argument; it   *)
(* is modelled by the value it returns.                                    *)
(***************************************************************************)
Fill(s, value) == [i \in 1..Len(s) |-> value]

FillWith(s, value) ==
    [i \in 1..Len(s) |-> IF i - 1 < Len(s) - 1 THEN value ELSE s[i]]

FillWithDefault(s) ==
    [i \in 1..Len(s) |-> IF i - 1 < Len(s) - 1 THEN Default ELSE s[i]]

SwapValues(s, v1, v2) ==
    IF ~Contains(s, v1) \/ Contains(s, v2) THEN s
    ELSE [i \in 1..Len(s) |->
             IF ElemEq(s[i], v1) THEN v2
             ELSE IF ElemEq(s[i], v2) THEN v1
             ELSE s[i]]

(***************************************************************************)
(* sliceutils.go: Count, FirstIndexOf, LastIndexOf and AllIndexesOf.  In   *)
(* the loop of AllIndexesOf the range variable is also named v, so the     *)
(* test v.Eq(v) compares each Element with itself.                         *)
(***************************************************************************)
Count(s, v) == Cardinality({i \in 1..Len(s) : ElemEq(s[i], v)})

Found(n, e) == [val |-> n, err |-> e]

FirstIndexOf(s, v) ==
    IF \E i \in 1..Len(s) : ElemEq(s[i], v)
    THEN Found((CHOOSE i \in 1..Len(s) :
                   ElemEq(s[i], v) /\ \A j \in 1..(i - 1) : ~ElemEq(s[j], v)) - 1,
               "nil")
    ELSE Found(0 - 1, "ErrDoesNotExist")

LastIndexOf(s, v) ==
    IF \E i \in 1..Len(s) : ElemEq(s[i], v)
    THEN Found((CHOOSE i \in 1..Len(s) :
                   ElemEq(s[i], v) /\ \A j \in (i + 1)..Len(s) : ~ElemEq(s[j], v)) - 1,
               "nil")
    ELSE Found(0 - 1, "ErrDoesNotExist")

RECURSIVE AllIndexesLoop(_, _, _)
AllIndexesLoop(s, i, indexes) ==
    IF i > Len(s) THEN indexes
    ELSE IF ElemEq(s[i], s[i])
         THEN AllIndexesLoop(s, i + 1, Append(indexes, I(i - 1)))
         ELSE AllIndexesLoop(s, i + 1, indexes)

AllIndexesOf(s, v) ==
    IF ~Contains(s, v) THEN Found(<<>>, "ErrDoesNotExist")
    ELSE Found(AllIndexesLoop(s, 1, <<>>), "nil")

(***************************************************************************)
(* sliceutils.go: StepBy.  The loop advances i by n; with n = 0 on a       *)
(* non-empty Slice i stays 0 and the loop pushes sl[0] without end.        *)
(***************************************************************************)
RECURSIVE StepByLoop(_, _, _, _)
StepByLoop(s, n, i, step) ==
    IF i >= Len(s) THEN step
    ELSE StepByLoop(s, n, i + n, Append(step, s[i + 1]))

StepBy(s, n) ==
    IF n = 0 /\ 0 < Len(s) THEN Outcome(<<>>, Default, "diverges")
    ELSE Outcome(StepByLoop(s, n, 0, <<>>), Default, "nil")

(***************************************************************************)
(* Inputs.                                                                 *)
(***************************************************************************)
SeqsUpTo(E, n) == UNION {[1..k -> E] : k \in 0..n}

Vals == 0..2

IntElems == {I(n) : n \in Vals}

Ints(s) == [i \in 1..Len(s) |-> I(s[i])]

ExampleSeqs ==
    {Ints(<<1, 2, 3, 4>>), Ints(<<1, 2, 3, 4, 5>>), Ints(<<1, 3, 2, 3, 4>>),
     Ints(<<1, 3, 2, 3, 4, 5>>), Ints(<<1, 3, 2, 3, 4, 3, 5>>)}

FlatSeqs == SeqsUpTo(IntElems, MaxLen)

Seps == IntElems \cup {I(3)}

Cuts(n, k) ==
    {c \in [0..k -> 0..n] : /\ c[0] = 0
                            /\ c[k] = n
                            /\ \A i \in 1..k : c[i - 1] <= c[i]}

MaxCut == IF MaxLeaves > MaxGroups THEN MaxLeaves ELSE MaxGroups

CutsTable == [n \in 0..MaxCut |-> [k \in 1..MaxGroups |-> Cuts(n, k)]]

Groupings(x) ==
    {<<>>} \cup
    UNION {{[i \in 1..k |-> S(SubSeq(x, c[i - 1] + 1, c[i]))] : c \in CutsTable[Len(x)][k]}
           : k \in 1..MaxGroups}

RECURSIVE Nested(_)
Nested(d) ==
    IF d = 0 THEN {[i \in 1..k |-> I(i)] : k \in 0..MaxLeaves}
    ELSE UNION {Groupings(x) : x \in Nested(d - 1)}

NestedSeqs(depth) == UNION {Nested(d) : d \in 0..depth}

Blank ==
    /\ pre = sl
    /\ other = <<>>
    /\ op = "New"
    /\ arg = 0
    /\ sep = I(0)
    /\ ret = <<>>
    /\ ord = Equal
    /\ err = "nil"
    /\ vals = <<>>
    /\ ok = FALSE
    /\ cmp = "none"
    /\ deque = <<>>
    /\ added = 0
    /\ removed = 0
    /\ mem = <<>>
    /\ slRef = <<>>
    /\ retRef = <<>>
    /\ wrote = "none"
    /\ calls = <<>>

NoHistory == UNCHANGED <<deque, added, removed, mem, slRef, retRef, wrote, calls>>

NoExtras == vals' = <<>> /\ ok' = FALSE /\ cmp' = "none"

Init ==
    /\ sl \in FlatSeqs \cup ExampleSeqs
    /\ Blank

DoCompare ==
    \E t \in FlatSeqs :
        /\ op' = "Compare"
        /\ other' = t
        /\ ord' = Compare(sl, t).ord
        /\ err' = Compare(sl, t).err
        /\ ret' = <<>>
        /\ pre' = sl
        /\ NoHistory
        /\ arg' = 0
        /\ sep' = I(0)
        /\ NoExtras
        /\ UNCHANGED sl

DoSplit ==
    \E v \in Seps :
        /\ op' = "Split"
        /\ sep' = v
        /\ ret' = Split(sl, v)
        /\ err' = "nil"
        /\ pre' = sl
        /\ NoHistory
        /\ arg' = 0
        /\ other' = <<>>
        /\ ord' = Equal
        /\ NoExtras
        /\ UNCHANGED sl

DoSplitN ==
    \E n \in 0..MaxArg, v \in Seps :
        /\ op' = "SplitN"
        /\ arg' = n
        /\ sep' = v
        /\ ret' = SplitN(sl, n, v)
        /\ err' = "nil"
        /\ pre' = sl
        /\ NoHistory
        /\ other' = <<>>
        /\ ord' = Equal
        /\ NoExtras
        /\ UNCHANGED sl

DoSplitOnce ==
    \E v \in Seps :
        /\ op' = "SplitOnce"
        /\ arg' = 2
        /\ sep' = v
        /\ ret' = SplitOnce(sl, v)
        /\ err' = "nil"
        /\ pre' = sl
        /\ NoHistory
        /\ other' = <<>>
        /\ ord' = Equal
        /\ NoExtras
        /\ UNCHANGED sl

DoChunk ==
    \E size \in 0..MaxArg :
        /\ op' = "Chunk"
        /\ arg' = size
        /\ ret' = IF size = 0 THEN <<>> ELSE Chunk(sl, size)
        /\ err' = IF size = 0 THEN "panic" ELSE "nil"
        /\ pre' = sl
        /\ NoHistory
        /\ other' = <<>>
        /\ sep' = I(0)
        /\ ord' = Equal
        /\ NoExtras
        /\ UNCHANGED sl

DoWindows ==
    \E size \in 0..MaxArg :
        /\ op' = "Windows"
        /\ arg' = size
        /\ ret' = IF size = 0 THEN <<>> ELSE Windows(sl, size)
        /\ err' = IF size = 0 THEN "panic" ELSE "nil"
        /\ pre' = sl
        /\ NoHistory
        /\ other' = <<>>
        /\ sep' = I(0)
        /\ ord' = Equal
        /\ NoExtras
        /\ UNCHANGED sl

Next == DoCompare \/ DoSplit \/ DoSplitN \/ DoSplitOnce \/ DoChunk \/ DoWindows

Spec == Init /\ [][Next]_vars

(***************************************************************************)
(* The flatten family, on Sequences nested to a uniform depth.  Flatten    *)
(* never compares Elements, so the innermost Elements are 1, 2, ... in     *)
(* order, grouped in every way into at most MaxGroups sub-sequences (empty *)
(* ones included) at each level.                                           *)
(***************************************************************************)
InitFlatten == sl \in NestedSeqs(MaxDepth) /\ Blank

DoFlatten ==
    /\ op' = "Flatten"
    /\ ret' = IF FlattenPanics(sl) THEN <<>> ELSE Flatten(sl)
    /\ err' = IF FlattenPanics(sl) THEN "panic" ELSE "nil"
    /\ pre' = sl
    /\ NoHistory
    /\ arg' = 0
    /\ other' = <<>>
    /\ sep' = I(0)
    /\ ord' = Equal
    /\ NoExtras
    /\ UNCHANGED sl

DoFlattenN ==
    \E n \in 0..(MaxDepth + 1) :
        /\ op' = "FlattenN"
        /\ arg' = n
        /\ ret' = FlattenN(sl, n, StackLimit).ret
        /\ err' = FlattenN(sl, n, StackLimit).err
        /\ pre' = sl
        /\ NoHistory
        /\ other' = <<>>
        /\ sep' = I(0)
        /\ ord' = Equal
        /\ NoExtras
        /\ UNCHANGED sl

DoFlattenAll ==
    /\ op' = "FlattenAll"
    /\ ret' = FlattenAll(sl)
    /\ err' = "nil"
    /\ pre' = sl
    /\ NoHistory
    /\ arg' = 0
    /\ other' = <<>>
    /\ sep' = I(0)
    /\ ord' = Equal
    /\ NoExtras
    /\ UNCHANGED sl

NextFlatten == DoFlatten \/ DoFlattenN \/ DoFlattenAll

SpecFlatten == InitFlatten /\ [][NextFlatten]_vars

(***************************************************************************)
(* C1: on Sequences of Int, s.Compare(s) is Equal, and s.Compare(t) is     *)
(* Greater exactly when t.Compare(s) is Less.                              *)
(***************************************************************************)
C1_CompareReflexiveAntisymmetric ==
    op = "Compare" =>
        /\ err = "nil"
        /\ other = sl => ord = Equal
        /\ ord = Greater <=> Compare(other, sl) = Returns(Less)

C1_Witness ==
    /\ op = "Compare"
    /\ ord = Greater
    /\ Len(sl) >= 2
    /\ Len(other) > Len(sl)
    /\ sl[1] = other[1]

(***************************************************************************)
(* C2: Compare is the lexicographic order on Sequences of Int: empty vs    *)
(* empty is Equal, a strict prefix is Less than its extension (and the     *)
(* extension Greater), otherwise the first differing index decides, and    *)
(* with no differing index and equal lengths the result is Equal.          *)
(***************************************************************************)
MinLen(s, t) == IF Len(s) < Len(t) THEN Len(s) ELSE Len(t)

Differ(s, t) == {i \in 1..MinLen(s, t) : s[i].val # t[i].val}

FirstDiffer(s, t) == CHOOSE i \in Differ(s, t) : \A j \in Differ(s, t) : i <= j

LexOrder(s, t) ==
    IF Differ(s, t) # {}
    THEN IF s[FirstDiffer(s, t)].val < t[FirstDiffer(s, t)].val THEN Less ELSE Greater
    ELSE IF Len(s) < Len(t) THEN Less
    ELSE IF Len(s) > Len(t) THEN Greater
    ELSE Equal

C2_CompareLexicographic ==
    op = "Compare" => err = "nil" /\ ord = LexOrder(sl, other)

C2_Witness ==
    /\ op = "Compare"
    /\ ord = Less
    /\ Len(sl) > Len(other)
    /\ Differ(sl, other) # {}
    /\ FirstDiffer(sl, other) > 1

(***************************************************************************)
(* C3: Flatten of a one-level-nested Sequence returns the concatenation of *)
(* its sub-sequences in order (length = total number of Elements), Flatten *)
(* of a non-nested Sequence returns a Sequence equal to the receiver, and  *)
(* the receiver is left unchanged.                                         *)
(***************************************************************************)
RECURSIVE Concatenation(_)
Concatenation(s) == IF s = <<>> THEN <<>> ELSE Head(s).val \o Concatenation(Tail(s))

RECURSIVE TotalLen(_)
TotalLen(s) == IF s = <<>> THEN 0 ELSE Len(Head(s).val) + TotalLen(Tail(s))

AllKind(s, k) == \A i \in 1..Len(s) : s[i].kind = k

OneLevelNested(s) ==
    /\ s # <<>>
    /\ AllKind(s, "Slice")
    /\ \A i \in 1..Len(s) : AllKind(s[i].val, "Int")

C3_FlattenOneLevel ==
    op = "Flatten" =>
        /\ sl = pre
        /\ err = "nil"
        /\ OneLevelNested(pre) =>
               /\ Len(ret) = TotalLen(pre)
               /\ ret = Concatenation(pre)
        /\ AllKind(pre, "Int") => ret = pre

C3_Witness ==
    /\ op = "Flatten"
    /\ OneLevelNested(pre)
    /\ Len(pre) = 2
    /\ pre[1].val = <<>>
    /\ Len(ret) >= 2
    /\ ret[1] # ret[2]

(***************************************************************************)
(* C4: FlattenN(d) returns the result of applying Flatten min(d, k) times  *)
(* to a Sequence of nesting depth k (Flatten leaves a Sequence that is no  *)
(* longer nested as it is, so this is Flatten applied d times).            *)
(***************************************************************************)
RECURSIVE FlattenTimes(_, _)
FlattenTimes(s, d) == IF d = 0 THEN s ELSE FlattenTimes(Flatten(s), d - 1)

C4_FlattenNRemovesLayers ==
    op = "FlattenN" => err = "nil" /\ ret = FlattenTimes(pre, arg)

(***************************************************************************)
(* C5: on a Sequence nested to a uniform depth FlattenAll returns a        *)
(* Sequence that is not nested and holds the innermost Elements in order,  *)
(* and FlattenAll of that result is the result itself.                     *)
(***************************************************************************)
RECURSIVE Leaves(_)
Leaves(s) ==
    IF s = <<>> THEN <<>>
    ELSE (IF Head(s).kind = "Int" THEN <<Head(s)>> ELSE Leaves(Head(s).val))
         \o Leaves(Tail(s))

C5_FlattenAllComplete ==
    op = "FlattenAll" =>
        /\ ~IsNested(ret)
        /\ AllKind(ret, "Int")
        /\ ret = Leaves(pre)
        /\ FlattenAll(ret) = ret

C5_Witness ==
    /\ op = "FlattenAll"
    /\ IsNested(pre)
    /\ IsNested(pre[1].val)
    /\ Len(pre) = 2
    /\ Len(ret) >= 2
    /\ ret[1] # ret[2]

(***************************************************************************)
(* C6: when sep occurs in s and no two occurrences are adjacent, joining   *)
(* the partitions of s.Split(sep) in order with one sep between            *)
(* consecutive partitions gives s back, also when sep is the first or the  *)
(* last Element (an empty first or last partition).                        *)
(***************************************************************************)
RECURSIVE RejoinFrom(_, _, _, _)
RejoinFrom(parts, v, i, acc) ==
    IF i > Len(parts) THEN acc
    ELSE RejoinFrom(parts, v, i + 1, Join(acc, parts[i].val, <<v>>))

Rejoin(parts, v) == RejoinFrom(parts, v, 2, parts[1].val)

Occurrences(s, v) == {i \in 1..Len(s) : s[i] = v}

NoAdjacent(s, v) == \A i \in Occurrences(s, v) : i + 1 \notin Occurrences(s, v)

C6_SplitRejoin ==
    (op = "Split" /\ Occurrences(pre, sep) # {} /\ NoAdjacent(pre, sep)) =>
        /\ AllKind(ret, "Slice")
        /\ Rejoin(ret, sep) = pre

C6_Witness ==
    /\ op = "Split"
    /\ Len(pre) = 3
    /\ Occurrences(pre, sep) = {1, 3}
    /\ Len(ret) = 3
    /\ ret[1].val = <<>>
    /\ ret[3].val = <<>>

(***************************************************************************)
(* C7: Split(sep) on a Sequence without sep returns the Elements of the    *)
(* Sequence in order, not wrapped; when sep occurs k >= 1 times it returns *)
(* k + 1 partitions, none of which contains sep.                           *)
(***************************************************************************)
C7_SplitPartitions ==
    op = "Split" =>
        /\ Occurrences(pre, sep) = {} => ret = pre
        /\ Occurrences(pre, sep) # {} =>
               /\ Len(ret) = Cardinality(Occurrences(pre, sep)) + 1
               /\ \A i \in 1..Len(ret) :
                      /\ ret[i].kind = "Slice"
                      /\ Occurrences(ret[i].val, sep) = {}

C7_Witness ==
    /\ op = "Split"
    /\ Occurrences(pre, sep) = {}
    /\ Len(pre) = 3
    /\ ret = pre

(***************************************************************************)
(* C8: for n >= 2 and a Sequence containing sep, SplitN(n, sep) returns at *)
(* most n partitions; the partitions before the last are those of          *)
(* Split(sep); once n - 1 separators are consumed the last partition is    *)
(* the Elements after the (n-1)-th separator, that separator dropped.      *)
(***************************************************************************)
NthOccurrence(s, v, k) ==
    CHOOSE i \in Occurrences(s, v) :
        Cardinality({j \in Occurrences(s, v) : j <= i}) = k

SplitNExpected(s, n, v) ==
    IF Cardinality(Occurrences(s, v)) < n - 1
    THEN Split(s, v)
    ELSE SubSeq(Split(s, v), 1, n - 1)
         \o <<S(SubSeq(s, NthOccurrence(s, v, n - 1) + 1, Len(s)))>>

C8_SplitNFinalPartition ==
    (op \in {"SplitN", "SplitOnce"} /\ arg >= 2 /\ Occurrences(pre, sep) # {}) =>
        /\ Len(ret) <= arg
        /\ ret = SplitNExpected(pre, arg, sep)

(***************************************************************************)
(* C9: for size >= 1 and a Sequence of length L, Chunk(size) returns       *)
(* ceil(L/size) groups whose concatenation is the Sequence, all of size    *)
(* Elements but the last, when L > size; the Sequence itself, un-nested,   *)
(* when 1 <= L <= size; the empty Sequence when L = 0.                     *)
(***************************************************************************)
CeilDiv(a, b) == (a + b - 1) \div b

C9_ChunkGroups ==
    (op = "Chunk" /\ arg >= 1) =>
        /\ err = "nil"
        /\ Len(pre) = 0 => ret = <<>>
        /\ (1 <= Len(pre) /\ Len(pre) <= arg) => ret = pre
        /\ Len(pre) > arg =>
               /\ Len(ret) = CeilDiv(Len(pre), arg)
               /\ AllKind(ret, "Slice")
               /\ Concatenation(ret) = pre
               /\ \A i \in 1..(Len(ret) - 1) : Len(ret[i].val) = arg
               /\ Len(ret[Len(ret)].val) = Len(pre) - arg * (CeilDiv(Len(pre), arg) - 1)

C9_Witness ==
    /\ op = "Chunk"
    /\ pre = Ints(<<1, 2, 3, 4>>)
    /\ arg = 3
    /\ ret = <<S(Ints(<<1, 2, 3>>)), S(Ints(<<4>>))>>

C11_WindowsWholeUnnested ==
    (op = "Windows" /\ Len(pre) >= 1 /\ arg >= Len(pre)) => ret = pre

(***************************************************************************)
(* The sort family, on Sequences of Int.  Sort and SortBy write through    *)
(* the receiver's backing storage, so the caller's Slice is sorted.  The   *)
(* caller's function of SortBy compares the keys v / 2, strictly ("lt")    *)
(* or not ("le"), so that 0 and 1 are distinct Elements with equal keys.   *)
(***************************************************************************)
SortExamples ==
    {Ints(<<3, 1, 4, 1, 5, 9, 2, 6>>), Ints(<<1, 2, 3>>), Ints(<<3, 2, 1>>),
     Ints(<<1, 4, 3, 5, 2>>)}

InitSort == sl \in FlatSeqs \cup SortExamples /\ Blank

DoSort ==
    /\ op' = "Sort"
    /\ sl' = Sort(sl)
    /\ pre' = sl
    /\ NoHistory
    /\ err' = "nil"
    /\ ret' = <<>>
    /\ arg' = 0
    /\ other' = <<>>
    /\ sep' = I(0)
    /\ ord' = Equal
    /\ NoExtras

DoSortBy ==
    \E f \in {"lt", "le"} :
        /\ op' = "SortBy"
        /\ cmp' = f
        /\ sl' = SortBy(sl, f)
        /\ pre' = sl
        /\ NoHistory
        /\ err' = "nil"
        /\ ret' = <<>>
        /\ arg' = 0
        /\ other' = <<>>
        /\ sep' = I(0)
        /\ ord' = Equal
        /\ vals' = <<>>
        /\ ok' = FALSE

DoIsSorted ==
    /\ op' = "IsSorted"
    /\ ok' = IsSorted(sl)
    /\ pre' = sl
    /\ NoHistory
    /\ err' = "nil"
    /\ ret' = <<>>
    /\ arg' = 0
    /\ other' = <<>>
    /\ sep' = I(0)
    /\ ord' = Equal
    /\ vals' = <<>>
    /\ cmp' = "none"
    /\ UNCHANGED sl

NextSort == DoSort \/ DoSortBy \/ DoIsSorted

SpecSort == InitSort /\ [][NextSort]_vars

(***************************************************************************)
(* C12: after Sort() a Sequence of Int is a permutation of its previous    *)
(* contents (same length, same multiset) in non-decreasing order; Sort on  *)
(* [3,1,4,1,5,9,2,6] yields [1,1,2,3,4,5,6,9].                             *)
(***************************************************************************)
Times(s, v) == Cardinality({i \in 1..Len(s) : s[i] = v})

Permutation(s, t) ==
    /\ Len(s) = Len(t)
    /\ \A i \in 1..Len(s) : Times(s, s[i]) = Times(t, s[i])

C12_SortPermutationOrdered ==
    op = "Sort" =>
        /\ Permutation(sl, pre)
        /\ \A i \in 1..(Len(sl) - 1) : sl[i].val <= sl[i + 1].val
        /\ pre = Ints(<<3, 1, 4, 1, 5, 9, 2, 6>>) =>
               sl = Ints(<<1, 1, 2, 3, 4, 5, 6, 9>>)

C12_Witness ==
    /\ op = "Sort"
    /\ pre = Ints(<<3, 1, 4, 1, 5, 9, 2, 6>>)
    /\ sl = Ints(<<1, 1, 2, 3, 4, 5, 6, 9>>)

(***************************************************************************)
(* C13: IsSorted() is true exactly when no adjacent pair is inverted with  *)
(* respect to the ascending order (no i with s[i] > s[i+1]): true on       *)
(* [1,2,3] and on every result of Sort(), false on [3,2,1] and on          *)
(* [3,1,4,1,5,9,2,6].                                                      *)
(***************************************************************************)
Ascending(s) == \A i \in 1..(Len(s) - 1) : s[i].val <= s[i + 1].val

C13_IsSortedAscending ==
    op = "IsSorted" => (ok <=> Ascending(pre))

(***************************************************************************)
(* C14: SortBy(f) is a stable sort, for the strict and for the non-strict  *)
(* form of f: the result is the permutation of the input ordered by key in *)
(* which Elements of equal key keep their original relative order.         *)
(***************************************************************************)
WithKey(s, k) == SelectSeq(s, LAMBDA a : Key(a) = k)

RECURSIVE StableFrom(_, _, _)
StableFrom(s, k, maxKey) ==
    IF k > maxKey THEN <<>> ELSE WithKey(s, k) \o StableFrom(s, k + 1, maxKey)

MaxKey(s) == IF s = <<>> THEN 0
             ELSE CHOOSE k \in {Key(s[i]) : i \in 1..Len(s)} :
                      \A i \in 1..Len(s) : Key(s[i]) <= k

StableByKey(s) == StableFrom(s, 0, MaxKey(s))

C14_SortByStable ==
    op = "SortBy" => sl = StableByKey(pre)

(***************************************************************************)
(* RotateLeft, RotateRight and Dedup replace the receiver's contents.      *)
(***************************************************************************)
ModifyExamples == {Ints(<<1, 1, 2, 2, 3, 3>>), Ints(<<1, 2, 3, 4>>)}

InitModify == sl \in FlatSeqs \cup ModifyExamples /\ Blank

DoRotateLeft ==
    \E n \in 0..MaxArg :
        /\ op' = "RotateLeft"
        /\ arg' = n
        /\ sl' = RotateLeft(sl, n)
        /\ pre' = sl
        /\ NoHistory
        /\ err' = "nil"
        /\ ret' = <<>>
        /\ other' = <<>>
        /\ sep' = I(0)
        /\ ord' = Equal
        /\ NoExtras

DoRotateRight ==
    \E n \in 0..MaxArg :
        /\ op' = "RotateRight"
        /\ arg' = n
        /\ sl' = RotateRight(sl, n)
        /\ pre' = sl
        /\ NoHistory
        /\ err' = "nil"
        /\ ret' = <<>>
        /\ other' = <<>>
        /\ sep' = I(0)
        /\ ord' = Equal
        /\ NoExtras

DoDedup ==
    /\ op' = "Dedup"
    /\ sl' = Dedup(sl)
    /\ pre' = sl
    /\ NoHistory
    /\ err' = "nil"
    /\ ret' = <<>>
    /\ arg' = 0
    /\ other' = <<>>
    /\ sep' = I(0)
    /\ ord' = Equal
    /\ NoExtras

NextModify == DoRotateLeft \/ DoRotateRight \/ DoDedup

SpecModify == InitModify /\ [][NextModify]_vars

(***************************************************************************)
(* C15: with L the length, RotateLeft(n) puts the Element previously at    *)
(* index (i + n) mod L at index i, and RotateRight(n) the one previously   *)
(* at (i - n) mod L; both leave an empty Sequence alone and do nothing for *)
(* n = 0; a rotation by a multiple of L is the identity; RotateRight(n)    *)
(* after RotateLeft(n) restores the Sequence.                              *)
(***************************************************************************)
RotatedBy(s, t, k) ==
    /\ Len(s) = Len(t)
    /\ \A i \in 0..(Len(s) - 1) : s[i + 1] = t[((i + k) % Len(s)) + 1]

C15_Rotate ==
    /\ op = "RotateLeft" =>
           /\ RotatedBy(sl, pre, arg)
           /\ (Len(pre) = 0 \/ arg % Len(pre) = 0) => sl = pre
           /\ RotateRight(sl, arg) = pre
    /\ op = "RotateRight" =>
           /\ RotatedBy(sl, pre, 0 - arg)
           /\ (Len(pre) = 0 \/ arg % Len(pre) = 0) => sl = pre

C15_Witness ==
    /\ op = "RotateRight"
    /\ arg = 4
    /\ pre = Ints(<<1, 2, 0>>)
    /\ sl = Ints(<<0, 1, 2>>)

(***************************************************************************)
(* C16: Dedup() keeps, for each distinct value, its first occurrence, in   *)
(* the original order: the result has no two equal Elements, holds exactly *)
(* the values of the input, and orders them by first occurrence.  Dedup on *)
(* the result changes nothing.                                             *)
(***************************************************************************)
FirstIndex(s, v) == CHOOSE i \in 1..Len(s) :
                        s[i] = v /\ \A j \in 1..(i - 1) : s[j] # v

C16_DedupFirstOccurrences ==
    op = "Dedup" =>
        /\ \A a, b \in 1..Len(sl) : sl[a] = sl[b] => a = b
        /\ {sl[a] : a \in 1..Len(sl)} = {pre[i] : i \in 1..Len(pre)}
        /\ \A a, b \in 1..Len(sl) :
               a < b => FirstIndex(pre, sl[a]) < FirstIndex(pre, sl[b])
        /\ Dedup(sl) = sl

C16_Witness ==
    /\ op = "Dedup"
    /\ pre = Ints(<<1, 0, 1>>)
    /\ sl = Ints(<<1, 0>>)

(***************************************************************************)
(* Indexed access on Sequences of Int: Get, Set, Insert, Remove, IndexIs.  *)
(* Indexes range over -MaxArg..MaxArg (Remove takes a uint).  Insert is    *)
(* taken while the result stays within MaxLen.                             *)
(***************************************************************************)
InsertVals == {<<>>, <<I(1)>>, <<I(2), I(1)>>}

InitIndex == sl \in FlatSeqs /\ Blank

DoGet ==
    \E n \in (0 - MaxArg)..MaxArg :
        /\ op' = "Get"
        /\ arg' = n
        /\ ret' = <<Get(sl, n).val>>
        /\ err' = Get(sl, n).err
        /\ pre' = sl
        /\ NoHistory
        /\ other' = <<>>
        /\ sep' = I(0)
        /\ ord' = Equal
        /\ NoExtras
        /\ UNCHANGED sl

DoSet ==
    \E n \in (0 - MaxArg)..MaxArg, value \in IntElems :
        /\ op' = "Set"
        /\ arg' = n
        /\ vals' = <<value>>
        /\ sl' = Set(sl, n, value).s
        /\ err' = Set(sl, n, value).err
        /\ pre' = sl
        /\ NoHistory
        /\ ret' = <<>>
        /\ other' = <<>>
        /\ sep' = I(0)
        /\ ord' = Equal
        /\ ok' = FALSE
        /\ cmp' = "none"

DoInsert ==
    \E n \in (0 - MaxArg)..MaxArg, v \in InsertVals :
        /\ Len(sl) + Len(v) <= MaxLen
        /\ op' = "Insert"
        /\ arg' = n
        /\ vals' = v
        /\ sl' = Insert(sl, n, v).s
        /\ err' = Insert(sl, n, v).err
        /\ pre' = sl
        /\ NoHistory
        /\ ret' = <<>>
        /\ other' = <<>>
        /\ sep' = I(0)
        /\ ord' = Equal
        /\ ok' = FALSE
        /\ cmp' = "none"

DoRemove ==
    \E n \in 0..MaxArg :
        /\ op' = "Remove"
        /\ arg' = n
        /\ sl' = Remove(sl, n).s
        /\ ret' = <<Remove(sl, n).val>>
        /\ err' = Remove(sl, n).err
        /\ pre' = sl
        /\ NoHistory
        /\ other' = <<>>
        /\ sep' = I(0)
        /\ ord' = Equal
        /\ NoExtras

DoIndexIs ==
    \E n \in (0 - MaxArg)..MaxArg, value \in IntElems :
        /\ op' = "IndexIs"
        /\ arg' = n
        /\ vals' = <<value>>
        /\ ok' = IndexIs(sl, n, value).ok
        /\ err' = IndexIs(sl, n, value).err
        /\ pre' = sl
        /\ NoHistory
        /\ ret' = <<>>
        /\ other' = <<>>
        /\ sep' = I(0)
        /\ ord' = Equal
        /\ cmp' = "none"
        /\ UNCHANGED sl

NextIndex == DoGet \/ DoSet \/ DoInsert \/ DoRemove \/ DoIndexIs

SpecIndex == InitIndex /\ [][NextIndex]_vars

(***************************************************************************)
(* C17: on a Sequence of length L >= 1, Get, Set, Insert and IndexIs take  *)
(* a negative index n to position (n mod L) + 1 (mod with a non-negative   *)
(* result), not to L + n: Get returns the Element there, Set writes there, *)
(* Insert inserts before it (appends when it is L), IndexIs compares the   *)
(* Element there; position L is past the end for Get, Set and IndexIs.     *)
(* Get(-L) on a Sequence of length L >= 2 returns the Element at 1.        *)
(***************************************************************************)
Position(n, length) == (n % length) + 1

C17_NegativeIndexPosition ==
    (arg < 0 /\ Len(pre) >= 1) =>
        /\ op = "Get" =>
               IF Position(arg, Len(pre)) < Len(pre)
               THEN err = "nil" /\ ret = <<pre[Position(arg, Len(pre)) + 1]>>
               ELSE err = "panic"
        /\ op = "Set" =>
               IF Position(arg, Len(pre)) < Len(pre)
               THEN err = "nil"
                    /\ sl = [pre EXCEPT ![Position(arg, Len(pre)) + 1] = vals[1]]
               ELSE err = "panic" /\ sl = pre
        /\ op = "Insert" =>
               /\ err = "nil"
               /\ sl = (SubSeq(pre, 1, Position(arg, Len(pre))) \o vals)
                          \o SubSeq(pre, Position(arg, Len(pre)) + 1, Len(pre))
        /\ op = "IndexIs" =>
               IF Position(arg, Len(pre)) < Len(pre)
               THEN err = "nil"
                    /\ (ok <=> pre[Position(arg, Len(pre)) + 1] = vals[1])
               ELSE err = "panic"

C17_Witness ==
    /\ op = "Get"
    /\ pre = Ints(<<0, 1, 2>>)
    /\ arg = 0 - 3
    /\ ret = <<I(1)>>
    /\ err = "nil"

(***************************************************************************)
(* C18: Get(n) is total: ErrIsEmpty on an empty Sequence, ErrOutOfRange    *)
(* for every index that does not resolve to a position in 0..L-1 (n = L    *)
(* and n = -1 included), and the Element at the resolved position          *)
(* otherwise; it never indexes out of bounds.                              *)
(***************************************************************************)
Resolved(n, length) == IF n < 0 THEN Position(n, length) ELSE n

C18_GetTotal ==
    op = "Get" =>
        IF Len(pre) = 0 THEN err = "ErrIsEmpty"
        ELSE IF Resolved(arg, Len(pre)) \notin 0..(Len(pre) - 1)
             THEN err = "ErrOutOfRange"
             ELSE err = "nil" /\ ret = <<pre[Resolved(arg, Len(pre)) + 1]>>

(***************************************************************************)
(* C19: Insert(n, values...) with 0 <= n <= L makes the Sequence           *)
(* s[0..n) ++ values ++ s[n..L) and returns nil; with n > L it returns     *)
(* ErrOutOfRange and leaves the Sequence unchanged.                        *)
(***************************************************************************)
C19_InsertAtIndex ==
    (op = "Insert" /\ arg >= 0) =>
        IF arg <= Len(pre)
        THEN /\ err = "nil"
             /\ sl = (SubSeq(pre, 1, arg) \o vals) \o SubSeq(pre, arg + 1, Len(pre))
        ELSE err = "ErrOutOfRange" /\ sl = pre

C19_Witness ==
    /\ op = "Insert"
    /\ pre = Ints(<<0>>)
    /\ arg = 0
    /\ vals = Ints(<<2, 1>>)
    /\ sl = Ints(<<2, 1, 0>>)
    /\ err = "nil"

(***************************************************************************)
(* C20: Remove(n) with n < L returns s[n] and nil and removes that         *)
(* Element; with n >= L on a non-empty Sequence it returns the Default     *)
(* value and ErrOutOfRange and leaves the Sequence unchanged; on an empty  *)
(* Sequence it returns ErrIsEmpty; it never indexes out of bounds.         *)
(***************************************************************************)
C20_RemoveTotal ==
    op = "Remove" =>
        IF Len(pre) = 0 THEN err = "ErrIsEmpty" /\ sl = pre
        ELSE IF arg < Len(pre)
             THEN /\ err = "nil"
                  /\ ret = <<pre[arg + 1]>>
                  /\ sl = SubSeq(pre, 1, arg) \o SubSeq(pre, arg + 2, Len(pre))
             ELSE err = "ErrOutOfRange" /\ ret = <<Default>> /\ sl = pre

(***************************************************************************)
(* Push, PushFront, Pop and PopFront from an empty Slice, next to an       *)
(* abstract double-ended queue (deque) driven by the same calls and the    *)
(* counts of Elements added and successfully removed.  Calls are taken     *)
(* while the Slice stays within MaxLen and at most MaxAdded Elements have  *)
(* been added.                                                             *)
(***************************************************************************)
MaxAdded == 5

InitDeque ==
    /\ sl = <<>>
    /\ Blank

DequeFrame == UNCHANGED <<mem, slRef, retRef, wrote, calls>>

DoPush ==
    \E v \in InsertVals :
        /\ Len(sl) + Len(v) <= MaxLen
        /\ added + Len(v) <= MaxAdded
        /\ op' = "Push"
        /\ vals' = v
        /\ sl' = Push(sl, v).s
        /\ err' = Push(sl, v).err
        /\ deque' = deque \o v
        /\ added' = added + Len(v)
        /\ removed' = removed
        /\ pre' = sl
        /\ ret' = <<>>
        /\ arg' = 0
        /\ other' = <<>>
        /\ sep' = I(0)
        /\ ord' = Equal
        /\ ok' = FALSE
        /\ cmp' = "none"
        /\ DequeFrame

DoPushFront ==
    \E v \in InsertVals :
        /\ Len(sl) + Len(v) <= MaxLen
        /\ added + Len(v) <= MaxAdded
        /\ op' = "PushFront"
        /\ vals' = v
        /\ sl' = PushFront(sl, v).s
        /\ err' = PushFront(sl, v).err
        /\ deque' = v \o deque
        /\ added' = added + Len(v)
        /\ removed' = removed
        /\ pre' = sl
        /\ ret' = <<>>
        /\ arg' = 0
        /\ other' = <<>>
        /\ sep' = I(0)
        /\ ord' = Equal
        /\ ok' = FALSE
        /\ cmp' = "none"
        /\ DequeFrame

DoPop ==
    /\ op' = "Pop"
    /\ sl' = Pop(sl).s
    /\ ret' = <<Pop(sl).val>>
    /\ err' = Pop(sl).err
    /\ deque' = [i \in 1..(Len(deque) - 1) |-> deque[i]]
    /\ removed' = IF deque = <<>> THEN removed ELSE removed + 1
    /\ added' = added
    /\ pre' = sl
    /\ arg' = 0
    /\ other' = <<>>
    /\ sep' = I(0)
    /\ ord' = Equal
    /\ NoExtras
    /\ DequeFrame

DoPopFront ==
    /\ op' = "PopFront"
    /\ sl' = PopFront(sl).s
    /\ ret' = <<PopFront(sl).val>>
    /\ err' = PopFront(sl).err
    /\ deque' = [i \in 1..(Len(deque) - 1) |-> deque[i + 1]]
    /\ removed' = IF deque = <<>> THEN removed ELSE removed + 1
    /\ added' = added
    /\ pre' = sl
    /\ arg' = 0
    /\ other' = <<>>
    /\ sep' = I(0)
    /\ ord' = Equal
    /\ NoExtras
    /\ DequeFrame

NextDeque == DoPush \/ DoPushFront \/ DoPop \/ DoPopFront

SpecDeque == InitDeque /\ [][NextDeque]_vars

(***************************************************************************)
(* C21: after any finite sequence of Push, PushFront, Pop and PopFront     *)
(* calls from an empty Slice, the Slice equals the abstract deque driven   *)
(* by the same calls and its length is the number of Elements added minus  *)
(* the number successfully removed; Pop / PopFront return the back / front *)
(* Element with nil, and on an empty Slice the Default Value with          *)
(* ErrIsEmpty, leaving it empty; Push / PushFront return nil.              *)
(***************************************************************************)
C21_DequeRefinement ==
    /\ sl = deque
    /\ Len(sl) = added - removed
    /\ op \in {"Push", "PushFront"} => err = "nil"
    /\ op = "Pop" =>
           IF pre = <<>>
           THEN err = "ErrIsEmpty" /\ ret = <<Default>> /\ sl = <<>>
           ELSE err = "nil" /\ ret = <<pre[Len(pre)]>>
    /\ op = "PopFront" =>
           IF pre = <<>>
           THEN err = "ErrIsEmpty" /\ ret = <<Default>> /\ sl = <<>>
           ELSE err = "nil" /\ ret = <<pre[1]>>

C21_Witness ==
    /\ op = "PopFront"
    /\ pre = Ints(<<2, 1, 1>>)
    /\ sl = Ints(<<1, 1>>)
    /\ ret = <<I(2)>>
    /\ added = 5
    /\ removed = 3

(***************************************************************************)
(* Results and backing storage.  One call on the receiver returns a result *)
(* (ret is its contents at the return, retRef the cells it refers to);     *)
(* after that, one in-place write goes through the receiver (Set or Sort)  *)
(* or through the result (Set), and wrote records which.  sl is always the *)
(* contents seen through the receiver's header slRef.                      *)
(***************************************************************************)
Mark == I(7)

Through(m, refs) == [i \in 1..Len(refs) |-> m[refs[i]]]

InitAlias ==
    /\ sl \in FlatSeqs
    /\ mem = sl
    /\ slRef = [i \in 1..Len(sl) |-> i]
    /\ retRef = <<>>
    /\ wrote = "none"
    /\ pre = sl
    /\ other = <<>>
    /\ op = "New"
    /\ arg = 0
    /\ sep = I(0)
    /\ ret = <<>>
    /\ ord = Equal
    /\ err = "nil"
    /\ vals = <<>>
    /\ ok = FALSE
    /\ cmp = "none"
    /\ deque = <<>>
    /\ added = 0
    /\ removed = 0
    /\ calls = <<>>

Returned(name, h, e) ==
    /\ op = "New"
    /\ op' = name
    /\ mem' = h.mem
    /\ retRef' = h.refs
    /\ ret' = View(h.mem, h.refs)
    /\ err' = e
    /\ pre' = sl
    /\ wrote' = "none"
    /\ other' = <<>>
    /\ ord' = Equal
    /\ ok' = FALSE
    /\ UNCHANGED <<deque, added, removed, calls>>

NoArgs == arg' = 0 /\ sep' = I(0) /\ vals' = <<>> /\ cmp' = "none"

DoCopy ==
    /\ Returned("Copy", CopyRefs(mem, slRef), "nil")
    /\ NoArgs
    /\ UNCHANGED <<sl, slRef>>

DoPurge ==
    /\ Returned("Purge", CopyRefs(mem, slRef), "nil")
    /\ NoArgs
    /\ sl' = <<>>
    /\ slRef' = <<>>

DoWindowsRefs ==
    \E size \in 1..MaxArg :
        /\ Returned("Windows", WindowsRefs(sl, slRef, size, mem), "nil")
        /\ arg' = size
        /\ sep' = I(0)
        /\ vals' = <<>>
        /\ cmp' = "none"
        /\ UNCHANGED <<sl, slRef>>

DoSplitNRefs ==
    \E n \in 0..MaxArg, sp \in Seps :
        /\ Returned("SplitN", SplitNRefs(sl, slRef, n, sp, mem), "nil")
        /\ arg' = n
        /\ sep' = sp
        /\ vals' = <<>>
        /\ cmp' = "none"
        /\ UNCHANGED <<sl, slRef>>

DoSplitRefs ==
    \E sp \in Seps :
        /\ Returned("Split", Fresh(Split(sl, sp), mem), "nil")
        /\ arg' = 0
        /\ sep' = sp
        /\ vals' = <<>>
        /\ cmp' = "none"
        /\ UNCHANGED <<sl, slRef>>

DoChunkRefs ==
    \E size \in 1..MaxArg :
        /\ Returned("Chunk", Fresh(Chunk(sl, size), mem), "nil")
        /\ arg' = size
        /\ sep' = I(0)
        /\ vals' = <<>>
        /\ cmp' = "none"
        /\ UNCHANGED <<sl, slRef>>

DoMapRefs ==
    \E f \in {"inc", "zero"} :
        /\ Returned("Map", Fresh(Map(sl, f), mem), "nil")
        /\ arg' = 0
        /\ sep' = I(0)
        /\ vals' = <<>>
        /\ cmp' = f
        /\ UNCHANGED <<sl, slRef>>

DoFilterRefs ==
    \E p \in {"odd", "any"} :
        /\ Returned("Filter", Fresh(Filter(sl, p), mem), "nil")
        /\ arg' = 0
        /\ sep' = I(0)
        /\ vals' = <<>>
        /\ cmp' = p
        /\ UNCHANGED <<sl, slRef>>

DoReverseRefs ==
    /\ Returned("Reverse", Fresh(Reverse(sl), mem), "nil")
    /\ NoArgs
    /\ UNCHANGED <<sl, slRef>>

DoGetRangeRefs ==
    \E from \in 0..MaxArg, to \in 0..MaxArg :
        /\ Returned("GetRange", Fresh(GetRange(sl, from, to).s, mem),
                    GetRange(sl, from, to).err)
        /\ arg' = from
        /\ sep' = I(0)
        /\ vals' = <<I(to)>>
        /\ cmp' = "none"
        /\ UNCHANGED <<sl, slRef>>

Written(by, m) ==
    /\ op # "New"
    /\ wrote = "none"
    /\ wrote' = by
    /\ mem' = m
    /\ sl' = Through(m, slRef)
    /\ UNCHANGED <<pre, other, op, arg, sep, ret, ord, err, vals, ok, cmp,
                   deque, added, removed, slRef, retRef, calls>>

DoSetReceiver ==
    \E n \in 0..MaxArg :
        /\ Set(sl, n, Mark).err = "nil"
        /\ Written("receiver", WriteBack(mem, slRef, Set(sl, n, Mark).s))

DoSortReceiver ==
    Written("receiver", WriteBack(mem, slRef, Sort(sl)))

DoSetResult ==
    \E n \in 0..MaxArg :
        /\ n < Len(retRef)
        /\ retRef[n + 1].kind = "Cell"
        /\ Written("result", [mem EXCEPT ![retRef[n + 1].at[1]] = Mark])

NextAlias ==
    \/ DoCopy \/ DoPurge \/ DoWindowsRefs \/ DoSplitNRefs \/ DoSplitRefs
    \/ DoChunkRefs \/ DoMapRefs \/ DoFilterRefs \/ DoReverseRefs
    \/ DoGetRangeRefs \/ DoSetReceiver \/ DoSortReceiver \/ DoSetResult

SpecAlias == InitAlias /\ [][NextAlias]_vars

(***************************************************************************)
(* C22: Copy() returns a Sequence equal to the receiver with its own       *)
(* backing storage: a later in-place write to the receiver leaves every    *)
(* Element of the copy as it was returned, and an in-place write to the    *)
(* copy leaves the receiver as it was.  The same for the Sequence returned *)
(* by Purge(), whose receiver is left empty.                               *)
(***************************************************************************)
C22_CopyOwnStorage ==
    op \in {"Copy", "Purge"} =>
        /\ ret = pre
        /\ wrote # "result" => View(mem, retRef) = ret
        /\ wrote # "receiver" => sl = (IF op = "Purge" THEN <<>> ELSE pre)

(***************************************************************************)
(* C23: the results of Windows, Split, SplitN, Chunk, Map, Filter, Reverse *)
(* and GetRange are freshly allocated: the call leaves the receiver        *)
(* unchanged, and a later in-place write to the receiver changes no        *)
(* Element of the returned result (inner windows and the final partition   *)
(* of SplitN included).                                                    *)
(***************************************************************************)
C23_ResultsFresh ==
    op \in {"Windows", "Split", "SplitN", "Chunk", "Map", "Filter", "Reverse",
            "GetRange"} =>
        /\ wrote = "none" => sl = pre
        /\ wrote # "result" => View(mem, retRef) = ret

(***************************************************************************)
(* Higher-order operations with the log of the invocations of the caller's *)
(* function.                                                               *)
(***************************************************************************)
InitCalls == sl \in FlatSeqs /\ Blank

Invoked(name, f, r, c) ==
    /\ op' = name
    /\ cmp' = f
    /\ ret' = r
    /\ calls' = c
    /\ err' = "nil"
    /\ pre' = sl
    /\ arg' = 0
    /\ other' = <<>>
    /\ sep' = I(0)
    /\ ord' = Equal
    /\ vals' = <<>>
    /\ ok' = FALSE
    /\ UNCHANGED <<sl, deque, added, removed, mem, slRef, retRef, wrote>>

DoForEach == Invoked("ForEach", "inc", ForEach(sl).val, ForEach(sl).calls)

DoMap ==
    \E f \in {"inc", "zero"} :
        Invoked("Map", f, MapLogged(sl, f).val, MapLogged(sl, f).calls)

DoMapWhile ==
    \E f \in {"inc", "incOdd", "never"} :
        Invoked("MapWhile", f, MapWhile(sl, f).val, MapWhile(sl, f).calls)

DoFilter ==
    \E p \in {"odd", "any"} :
        Invoked("Filter", p, FilterLogged(sl, p).val, FilterLogged(sl, p).calls)

DoCountBy ==
    \E p \in {"odd", "any"} :
        Invoked("CountBy", p, <<I(CountBy(sl, p).val)>>, CountBy(sl, p).calls)

DoSplitBy ==
    \E p \in {"odd", "any"} :
        Invoked("SplitBy", p, SplitBy(sl, p).val, SplitBy(sl, p).calls)

NextCalls ==
    DoForEach \/ DoMap \/ DoMapWhile \/ DoFilter \/ DoCountBy \/ DoSplitBy

SpecCalls == InitCalls /\ [][NextCalls]_vars

(***************************************************************************)
(* C24: Map, MapWhile, Filter, ForEach, CountBy and SplitBy each invoke    *)
(* the caller's function exactly once per Element of the receiver, in      *)
(* index order 0..L-1, with no repeated and no skipped call.               *)
(***************************************************************************)
C24_OncePerElement ==
    op \in {"Map", "MapWhile", "Filter", "ForEach", "CountBy", "SplitBy"} =>
        calls = [i \in 1..Len(pre) |-> i - 1]

(***************************************************************************)
(* Gt, Lt, Ge and Le of a Sequence of Int against an operand that is a     *)
(* Sequence of Int or a value of a foreign kind (here a plain Int).        *)
(***************************************************************************)
Operands == {S(t) : t \in SeqsUpTo(IntElems, MaxLen - 1)} \cup IntElems

InitOrd == sl \in FlatSeqs /\ Blank

Asked(name, o, a) ==
    /\ op' = name
    /\ other' = o
    /\ ok' = a.ok
    /\ err' = a.err
    /\ pre' = sl
    /\ NoHistory
    /\ ret' = <<>>
    /\ arg' = 0
    /\ sep' = I(0)
    /\ ord' = Equal
    /\ vals' = <<>>
    /\ cmp' = "none"
    /\ UNCHANGED sl

DoGt == \E o \in Operands : Asked("Gt", o, SliceGt(sl, o))

DoLt == \E o \in Operands : Asked("Lt", o, SliceLt(sl, o))

DoGe == \E o \in Operands : Asked("Ge", o, SliceGe(sl, o))

DoLe == \E o \in Operands : Asked("Le", o, SliceLe(sl, o))

NextOrd == DoGt \/ DoLt \/ DoGe \/ DoLe

SpecOrd == InitOrd /\ [][NextOrd]_vars

(***************************************************************************)
(* C25: for every Sequence s and every operand (a Sequence of the same     *)
(* kind or a value of a foreign kind), s.Ge(other) is the negation of      *)
(* s.Lt(other) and s.Le(other) is the negation of s.Gt(other).             *)
(***************************************************************************)
C25_GeLeDerived ==
    /\ op = "Ge" => (ok <=> ~SliceLt(pre, other).ok)
    /\ op = "Le" => (ok <=> ~SliceGt(pre, other).ok)

(***************************************************************************)
(* Fill, FillWith, FillWithDefault and SwapValues on Sequences of Int.     *)
(***************************************************************************)
WriteExamples == {Ints(<<1, 2, 3>>), Ints(<<1, 1, 2, 2, 3, 3>>)}

WriteVals == IntElems \cup {I(3)}

InitWrite == sl \in FlatSeqs \cup WriteExamples /\ Blank

Wrote(name, v, s) ==
    /\ op' = name
    /\ vals' = v
    /\ sl' = s
    /\ pre' = sl
    /\ NoHistory
    /\ err' = "nil"
    /\ ret' = <<>>
    /\ arg' = 0
    /\ other' = <<>>
    /\ sep' = I(0)
    /\ ord' = Equal
    /\ ok' = FALSE
    /\ cmp' = "none"

DoFill == \E value \in WriteVals : Wrote("Fill", <<value>>, Fill(sl, value))

DoFillWith ==
    \E value \in WriteVals : Wrote("FillWith", <<value>>, FillWith(sl, value))

DoFillWithDefault == Wrote("FillWithDefault", <<>>, FillWithDefault(sl))

DoSwapValues ==
    \E v1 \in WriteVals, v2 \in WriteVals :
        Wrote("SwapValues", <<v1, v2>>, SwapValues(sl, v1, v2))

NextWrite == DoFill \/ DoFillWith \/ DoFillWithDefault \/ DoSwapValues

SpecWrite == InitWrite /\ [][NextWrite]_vars

(***************************************************************************)
(* C26: Fill(v), FillWith(f) and FillWithDefault replace all values: after *)
(* the call every position 0..L-1, the last one included, holds v, the     *)
(* value returned by f, or the Default Value, and the length is unchanged  *)
(* ([1,2,3].FillWith(returning 1) = [1,1,1], [1,2,3].FillWithDefault =     *)
(* [0,0,0]).                                                               *)
(***************************************************************************)
C26_FillAll ==
    /\ op \in {"Fill", "FillWith"} => sl = [i \in 1..Len(pre) |-> vals[1]]
    /\ op = "FillWithDefault" => sl = [i \in 1..Len(pre) |-> Default]

(***************************************************************************)
(* C27: SwapValues(v1, v2) swaps all values v1 with v2: afterwards every   *)
(* position that held a value Eq to v1 holds v2, every position that held  *)
(* a value Eq to v2 holds v1, all other positions are unchanged            *)
(* ([1,1,2,2,3,3].SwapValues(1,3) = [3,3,2,2,1,1]).                        *)
(***************************************************************************)
C27_SwapValuesBoth ==
    op = "SwapValues" =>
        sl = [i \in 1..Len(pre) |->
                 IF pre[i] = vals[1] THEN vals[2]
                 ELSE IF pre[i] = vals[2] THEN vals[1]
                 ELSE pre[i]]

(***************************************************************************)
(* Count, FirstIndexOf, LastIndexOf and AllIndexesOf on Sequences of Int;  *)
(* sep holds the value looked for.                                         *)
(***************************************************************************)
InitFind == sl \in FlatSeqs /\ Blank

Looked(name, v, r, e) ==
    /\ op' = name
    /\ sep' = v
    /\ ret' = r
    /\ err' = e
    /\ pre' = sl
    /\ NoHistory
    /\ arg' = 0
    /\ other' = <<>>
    /\ ord' = Equal
    /\ NoExtras
    /\ UNCHANGED sl

DoCount == \E v \in Seps : Looked("Count", v, <<I(Count(sl, v))>>, "nil")

DoFirstIndexOf ==
    \E v \in Seps :
        Looked("FirstIndexOf", v, <<I(FirstIndexOf(sl, v).val)>>,
               FirstIndexOf(sl, v).err)

DoLastIndexOf ==
    \E v \in Seps :
        Looked("LastIndexOf", v, <<I(LastIndexOf(sl, v).val)>>,
               LastIndexOf(sl, v).err)

DoAllIndexesOf ==
    \E v \in Seps :
        Looked("AllIndexesOf", v, AllIndexesOf(sl, v).val, AllIndexesOf(sl, v).err)

NextFind == DoCount \/ DoFirstIndexOf \/ DoLastIndexOf \/ DoAllIndexesOf

SpecFind == InitFind /\ [][NextFind]_vars

(***************************************************************************)
(* C28: AllIndexesOf(v) returns, in ascending order, exactly the indexes i *)
(* with s[i].Eq(v) and nil when v occurs, and an empty list with           *)
(* ErrDoesNotExist when it does not; its first and last entries are        *)
(* FirstIndexOf(v) and LastIndexOf(v), its length is Count(v).             *)
(***************************************************************************)
IndexesOf(s, v) == {i \in 0..(Len(s) - 1) : s[i + 1] = v}

C28_AllIndexesOfExact ==
    op = "AllIndexesOf" =>
        IF IndexesOf(pre, sep) = {}
        THEN ret = <<>> /\ err = "ErrDoesNotExist"
        ELSE /\ err = "nil"
             /\ {ret[k].val : k \in 1..Len(ret)} = IndexesOf(pre, sep)
             /\ \A k \in 1..(Len(ret) - 1) : ret[k].val < ret[k + 1].val
             /\ ret[1].val = FirstIndexOf(pre, sep).val
             /\ ret[Len(ret)].val = LastIndexOf(pre, sep).val
             /\ Len(ret) = Count(pre, sep)

(***************************************************************************)
(* The index- and count-taking operations Insert, Set, IndexIs, StepBy and *)
(* FlattenN on Sequences of Int, the empty one included.                   *)
(***************************************************************************)
InitTerm == sl \in FlatSeqs /\ Blank

DoStepBy ==
    \E n \in 0..MaxArg :
        /\ op' = "StepBy"
        /\ arg' = n
        /\ ret' = StepBy(sl, n).s
        /\ err' = StepBy(sl, n).err
        /\ pre' = sl
        /\ NoHistory
        /\ other' = <<>>
        /\ sep' = I(0)
        /\ ord' = Equal
        /\ NoExtras
        /\ UNCHANGED sl

NextTerm == DoInsert \/ DoSet \/ DoIndexIs \/ DoStepBy \/ DoFlattenN

SpecTerm == InitTerm /\ [][NextTerm]_vars

(***************************************************************************)
(* C29: every index- or count-taking operation terminates on every input:  *)
(* Insert(n, ...), Set(n, v) and IndexIs(n, v) return for every integer n  *)
(* on every Sequence, the empty one included; StepBy(n) returns for every  *)
(* n, 0 included; FlattenN(d) returns for every depth d.                   *)
(***************************************************************************)
C29_AlwaysReturns ==
    op \in {"Insert", "Set", "IndexIs", "StepBy", "FlattenN"} =>
        err \notin {"diverges", "stack overflow"}

(***************************************************************************)
(* Compare on Sequences of C128, whose Gt and Lt are a partial order: the  *)
(* parts range over 0..1, so 1+0i and 0+1i are unequal and neither is Gt   *)
(* or Lt the other.                                                        *)
(***************************************************************************)
C128Elems == {C(re, im) : re \in 0..1, im \in 0..1}

C128Seqs == SeqsUpTo(C128Elems, MaxLen - 1)

InitC128 == sl \in C128Seqs /\ Blank

DoCompareC128 ==
    \E t \in C128Seqs :
        /\ op' = "Compare"
        /\ other' = t
        /\ ord' = Compare(sl, t).ord
        /\ err' = Compare(sl, t).err
        /\ ret' = <<>>
        /\ pre' = sl
        /\ NoHistory
        /\ arg' = 0
        /\ sep' = I(0)
        /\ NoExtras
        /\ UNCHANGED sl

DoEqC128 ==
    \E t \in C128Seqs :
        /\ op' = "Eq"
        /\ other' = t
        /\ ok' = ElemEq(S(sl), S(t))
        /\ err' = "nil"
        /\ ord' = Equal
        /\ ret' = <<>>
        /\ pre' = sl
        /\ NoHistory
        /\ arg' = 0
        /\ sep' = I(0)
        /\ vals' = <<>>
        /\ cmp' = "none"
        /\ UNCHANGED sl

NextC128 == DoCompareC128 \/ DoEqC128

SpecC128 == InitC128 /\ [][NextC128]_vars

(***************************************************************************)
(* C30: on Sequences of an element kind whose Gt / Lt are only a partial   *)
(* order (C128), Compare(s, t) never reads an index outside either         *)
(* Sequence, whatever the lengths, and returns Equal only if s.Eq(t).      *)
(***************************************************************************)
C30_ComparePartialOrder ==
    op = "Compare" =>
        /\ err # "panic"
        /\ ord = Equal => ElemEq(S(pre), S(other))
====
